---- MODULE Spec2Model ----
(***************************************************************************)
(* Model of the Azure AI Foundry plugin for Genkit Go                      *)
(* (azureaifoundry_plugin.go): the synchronous and the streaming           *)
(* generation paths, the assembly of the ModelResponse and the mapping of  *)
(* finish reasons.                                                         *)
(*                                                                         *)
(* Go strings are modelled as sequences of one-character strings, so that  *)
(* concatenation, emptiness and JSON decoding are computed, not assumed.   *)
(* A nil pointer or nil error is the empty sequence / the empty string.    *)
(***************************************************************************)
EXTENDS Integers, Sequences, FiniteSets, TLC

(***************************************************************************)
(* Bounds of the model.                                                    *)
(***************************************************************************)
MaxDeltas == 3        \* chunks one streaming call may read
MaxIndex == 1         \* tool-call fragment indices are 0..MaxIndex
MaxSyncCalls == 2     \* tool calls in one synchronous choice
MaxMessages == 2      \* messages in one request
MaxParts == 2         \* parts in one message
MaxTools == 1         \* tool definitions in one request
MaxModels == 2        \* models defined one by one on a plugin value
MaxPanics == 2        \* panics recovered from on a plugin value
MaxCalls == 3         \* concurrent calls on a plugin value

Indices == 0..MaxIndex

(***************************************************************************)
(* Sequence helpers.                                                       *)
(***************************************************************************)
RECURSIVE Flatten(_)
Flatten(ss) == IF ss = <<>> THEN <<>> ELSE Head(ss) \o Flatten(Tail(ss))

SeqsUpTo(S, n) == UNION {[1..k -> S] : k \in 0..n}

Perms(S) == {p \in [1..Cardinality(S) -> S] : \A a \in S : \E k \in DOMAIN p : p[k] = a}

(***************************************************************************)
(* encoding/json.Unmarshal into a map[string]interface{}, as called at     *)
(* lines 491 and 530.  The JSON alphabet is "{", "}", "a" (one member      *)
(* "a":1), "n" (the literal null).  An object decodes to its keys, null    *)
(* decodes without error and leaves the map nil, everything else (the      *)
(* empty string included) is an error.                                     *)
(***************************************************************************)
NilArgs == [isNil |-> TRUE, keys |-> {}]

IsJSONObject(s) ==
    /\ Len(s) \in {2, 3}
    /\ s[1] = "{"
    /\ s[Len(s)] = "}"
    /\ Len(s) = 3 => s[2] = "a"

Unmarshal(s) ==
    IF s = <<"n">> THEN [ok |-> TRUE, args |-> NilArgs]
    ELSE IF IsJSONObject(s)
         THEN [ok |-> TRUE,
               args |-> [isNil |-> FALSE, keys |-> {s[k] : k \in 2..(Len(s) - 1)}]]
         ELSE [ok |-> FALSE, args |-> NilArgs]

(***************************************************************************)
(* ai.Part, ai.ModelResponse.                                              *)
(***************************************************************************)
NewTextPart(t) == [kind |-> "text", text |-> t, name |-> "", input |-> NilArgs]

NewToolRequestPart(n, in) == [kind |-> "toolRequest", text |-> <<>>, name |-> n, input |-> in]

IsText(p) == p.kind = "text"

IsToolRequest(p) == p.kind = "toolRequest"

ModelResponse(parts, fr, us) ==
    [role |-> "model", content |-> parts, finishReason |-> fr, usage |-> us]

\* an error made by fmt.Errorf("<msg>: %w", cause); NoError is the nil error
NoError == [msg |-> "", cause |-> ""]

Wrap(msg, cause) == [msg |-> msg, cause |-> cause]

\* what a call hands back: response is <<>> for a nil *ai.ModelResponse
NoResult == [response |-> <<>>, error |-> NoError]

Returned(resp) == [response |-> <<resp>>, error |-> NoError]

Failed(msg, cause) == [response |-> <<>>, error |-> Wrap(msg, cause)]

(***************************************************************************)
(* Inputs: what the provider can put on the wire.                          *)
(***************************************************************************)
\* the id and the name of a fragment that carries them
FragHeads == {<<"c1", "foo">>}

\* pieces of argument text
ArgFrags == {<<"{", "a">>, <<"}">>}

\* the errors the callback, the stream and the client can report ("" is nil)
SinkErrors == {"", "sink failed"}

TransportErrors == {"", "timeout"}

\* what stream.Close() can return
CloseErrors == {"", "close failed"}

WireFinishReasons ==
    {"", "stop", "length", "content_filter", "tool_calls", "function_call", "anything_else"}

\* one streamed tool-call fragment (ChatCompletionChunkChoiceDeltaToolCall)
Frag(i, id, n, a) == [index |-> i, id |-> id, name |-> n, arguments |-> a]

\* fragments that carry an id and a name, fragments that carry only argument
\* text, and a fragment that carries the three
Frags ==
    {Frag(i, h[1], h[2], <<>>) : i \in Indices, h \in FragHeads}
    \cup {Frag(i, "", "", a) : i \in Indices, a \in ArgFrags}
    \cup {Frag(0, "c1", "foo", <<"{", "a">>)}

ChunkChoice(c, tcs, fr) ==
    [delta |-> [content |-> c, toolCalls |-> tcs], finishReason |-> fr]

Chunk(chs) == [choices |-> chs]

Chunks ==
    {Chunk(<<>>)}
    \cup {Chunk(<<ChunkChoice(<<"x">>, <<>>, "")>>),
          Chunk(<<ChunkChoice(<<"y", "z">>, <<>>, "content_filter")>>),
          Chunk(<<ChunkChoice(<<>>, <<>>, "length")>>)}
    \cup {Chunk(<<ChunkChoice(<<>>, <<f>>, "")>>) : f \in Frags}
    \cup {Chunk(<<ChunkChoice(<<"x">>, <<Frag(0, "c1", "foo", <<"{", "}">>)>>, "")>>),
          Chunk(<<ChunkChoice(<<>>, <<Frag(0, "", "", <<"}">>), Frag(MaxIndex, "c2", "bar", <<>>)>>,
                              "tool_calls")>>),
          Chunk(<<ChunkChoice(<<>>, <<>>, ""), ChunkChoice(<<"x">>, <<Frag(0, "c1", "foo", <<>>)>>, "")>>)}

\* one tool call of a complete response (ChatCompletionMessageToolCallUnion)
SyncToolCalls ==
    {[id |-> id, name |-> f[1], arguments |-> f[2]] :
        id \in {"", "c1"},
        f \in {<<"foo", <<"{", "}">> >>, <<"bar", <<"{", "a", "}">> >>, <<"foo", <<"{">> >>,
               <<"bar", <<>> >>, <<"foo", <<"n">> >>}}

WireUsages ==
    {[promptTokens |-> 0, completionTokens |-> 0, totalTokens |-> 0],
     [promptTokens |-> 5, completionTokens |-> 7, totalTokens |-> 12],
     [promptTokens |-> 0, completionTokens |-> 7, totalTokens |-> 7]}

SyncChoice(c, tcs, fr) ==
    [message |-> [content |-> c, toolCalls |-> tcs], finishReason |-> fr]

SyncChoices ==
    {SyncChoice(c, tcs, fr) :
        c \in {<<>>, <<"h", "i">>}, tcs \in SeqsUpTo(SyncToolCalls, MaxSyncCalls),
        fr \in WireFinishReasons}

\* a complete response has no choice, one choice, or a second choice that
\* the plugin never looks at
SyncResponses ==
    {[choices |-> chs, usage |-> u] :
        chs \in {<<>>} \cup {<<ch>> : ch \in SyncChoices}
                \cup {<<ch, SyncChoice(<<"x">>, <<>>, "length")>> :
                        ch \in {SyncChoice(<<>>, <<>>, "stop")}},
        u \in WireUsages}

(***************************************************************************)
(* The plugin's pure functions.                                            *)
(***************************************************************************)
\* variant: the content_filter case is missing
convertFinishReason_noBlocked(reason) ==
    CASE reason = "stop" -> "stop"
      [] reason = "length" -> "length"
      [] reason \in {"tool_calls", "function_call"} -> "stop"
      [] OTHER -> "other"

\* variant: an unrecognised reason is reported as unknown
convertFinishReason_unknownDefault(reason) ==
    CASE reason = "stop" -> "stop"
      [] reason = "length" -> "length"
      [] reason = "content_filter" -> "blocked"
      [] reason \in {"tool_calls", "function_call"} -> "stop"
      [] OTHER -> "unknown"

convertFinishReason(reason) ==
    CASE reason = "stop" -> "stop"
      [] reason = "length" -> "length"
      [] reason = "content_filter" -> "blocked"
      [] reason \in {"tool_calls", "function_call"} -> "stop"
      [] OTHER -> "other"

\* variant: the id of the tool call is not looked at
syncCallKept_anyId(id, ok) == ok

\* a tool call of a complete response becomes a part when its id is not
\* empty and its arguments decode; otherwise the loop goes on to the next one
syncCallKept(id, ok) == id # "" /\ ok

\* the loop over choice.Message.ToolCalls of convertResponse
RECURSIVE syncToolParts(_)
syncToolParts(tcs) ==
    IF tcs = <<>> THEN <<>>
    ELSE LET functionToolCall == Head(tcs)
             u == Unmarshal(functionToolCall.arguments)
         IN  (IF syncCallKept(functionToolCall.id, u.ok)
              THEN <<NewToolRequestPart(functionToolCall.name, u.args)>>
              ELSE <<>>)
             \o syncToolParts(Tail(tcs))

\* variant: the counters are copied whatever the input-token count
convertUsage_always(u) ==
    [inputTokens |-> u.promptTokens, outputTokens |-> u.completionTokens,
     totalTokens |-> u.totalTokens]

convertUsage(u) ==
    IF u.promptTokens > 0
    THEN [inputTokens |-> u.promptTokens, outputTokens |-> u.completionTokens,
          totalTokens |-> u.totalTokens]
    ELSE [inputTokens |-> 0, outputTokens |-> 0, totalTokens |-> 0]

\* convertResponse for a response without choices
emptyResponse == ModelResponse(<<>>, "unknown", <<>>)

\* the Text part of convertResponse
syncTextPart(content) == IF content # <<>> THEN <<NewTextPart(content)>> ELSE <<>>

convertResponse(resp) ==
    IF Len(resp.choices) = 0
    THEN emptyResponse
    ELSE LET choice == resp.choices[1]
         IN  ModelResponse(syncTextPart(choice.message.content)
                               \o syncToolParts(choice.message.toolCalls),
                           convertFinishReason(choice.finishReason),
                           <<convertUsage(resp.usage)>>)

\* generateTextSync once the client call has come back
syncResult(callErr, resp) ==
    IF callErr # "" THEN Failed("chat completion failed", callErr)
    ELSE Returned(convertResponse(resp))

\* toolCallAccumulator
Accumulator(id) == [id |-> id, name |-> "", arguments |-> <<>>]

\* variant: every fragment is filed under index 0
fragIndex_zero(f) == 0

\* idx := int(toolCallDelta.Index)
fragIndex(f) == f.index

\* the body of the loop over delta.ToolCalls, for one fragment
accumulate(m, f) ==
    LET idx == fragIndex(f)
        m1 == IF idx \in DOMAIN m THEN m ELSE m @@ (idx :> Accumulator(f.id))
    IN  [m1 EXCEPT ![idx] =
            [@ EXCEPT !.name = IF f.name # "" THEN f.name ELSE @,
                      !.arguments = IF f.arguments # <<>> THEN @ \o f.arguments ELSE @]]

RECURSIVE accumulateAll(_, _)
accumulateAll(m, fs) ==
    IF fs = <<>> THEN m ELSE accumulateAll(accumulate(m, Head(fs)), Tail(fs))

\* variant: the callback is invoked for every delta, empty text or not
sinkInvoked_always(content, haveCb) == haveCb

\* the guard in front of the callback: non-empty content and a callback
sinkInvoked(content, haveCb) == content # <<>> /\ haveCb

\* variant: the callback's error is dropped and the loop goes on
sinkAborts_never(invoked, sinkErr) == FALSE

\* a callback error ends the call at once
sinkAborts(invoked, sinkErr) == invoked /\ sinkErr # ""

\* the chunk handed to the callback
chunkResponse(content) == [content |-> <<NewTextPart(content)>>]

\* variant: a decoding error is swallowed, as on the synchronous path
decodeFails_never(arguments, ok) == FALSE

\* the arguments of a named accumulator are decoded only when not empty, and
\* a decoding error is returned
decodeFails(arguments, ok) == arguments # <<>> /\ ~ok

\* variant: a decoding error met later in the iteration is not returned
laterFailure_ignored(rest) == FALSE

\* the error return leaves the loop: the parts appended so far are dropped
laterFailure(rest) == rest.err

\* variant: an accumulator without a name is converted like the others
skipToolCall_never(name) == FALSE

\* an accumulator whose name never arrived is passed over
skipToolCall(name) == name = ""

\* convertToolCallsToParts, ranging over the map in the given order; Go
\* leaves the iteration order of a map unspecified
RECURSIVE convertToolCallsToParts(_, _)
convertToolCallsToParts(m, order) ==
    IF order = <<>> THEN [err |-> FALSE, parts |-> <<>>]
    ELSE LET toolCall == m[Head(order)]
             u == Unmarshal(toolCall.arguments)
             rest == convertToolCallsToParts(m, Tail(order))
         IN  IF skipToolCall(toolCall.name) THEN rest
             ELSE IF decodeFails(toolCall.arguments, u.ok)
                  THEN [err |-> TRUE, parts |-> <<>>]
                  ELSE IF laterFailure(rest) THEN rest
                       ELSE [err |-> FALSE,
                             parts |-> <<NewToolRequestPart(toolCall.name,
                                            IF toolCall.arguments # <<>> THEN u.args ELSE NilArgs)>>
                                       \o rest.parts]

\* variant: the finish reason of the last chunk read is mapped and returned
streamFinishReason_lastChunk(chunks) ==
    IF chunks = <<>> \/ chunks[Len(chunks)].choices = <<>> THEN "stop"
    ELSE convertFinishReason(chunks[Len(chunks)].choices[1].finishReason)

\* FinishReason of a streamed response, whatever the chunks read reported
streamFinishReason(chunks) == "stop"

\* variant: the terminal error of the stream is not looked at
streamErrCheck_skipped(terr) == FALSE

\* the stream.Err() check after the loop
streamErrCheck(terr) == terr # ""

\* variant: a Text part is emitted even for an empty buffer
streamTextPart_always(text) == <<NewTextPart(text)>>

\* the Text part of a streamed response
streamTextPart(text) == IF Len(text) > 0 THEN <<NewTextPart(text)>> ELSE <<>>

\* variant: the tool calls are converted before stream.Err() is looked at
streamResult_convertFirst(terr, text, m, order, chunks) ==
    LET toolParts == convertToolCallsToParts(m, order)
    IN  IF toolParts.err THEN Failed("failed to convert tool calls", "unmarshal")
        ELSE IF streamErrCheck(terr) THEN Failed("stream error", terr)
             ELSE Returned(ModelResponse(streamTextPart(text) \o toolParts.parts,
                                         streamFinishReason(chunks), <<>>))

\* generateTextStream after the loop: the stream.Err() check and the assembly
streamResult(terr, text, m, order, chunks) ==
    IF streamErrCheck(terr) THEN Failed("stream error", terr)
    ELSE LET toolParts == convertToolCallsToParts(m, order)
         IN  IF toolParts.err THEN Failed("failed to convert tool calls", "unmarshal")
             ELSE Returned(ModelResponse(streamTextPart(text) \o toolParts.parts,
                                         streamFinishReason(chunks), <<>>))

\* variant: the loop goes on after the callback error was returned
loopExit_never(abort) == "streaming"

\* the `return` inside the loop leaves it; otherwise the loop goes on
loopExit(abort) == IF abort THEN "done" ELSE "streaming"

\* variant: an error of Close replaces what the call returns
deferredClose_overrides(res, cerr) ==
    IF cerr # "" THEN Failed("stream close error", cerr) ELSE res

\* what the call returns once the deferred function has run stream.Close():
\* the results are unnamed and the error of Close is discarded
deferredClose(res, cerr) == res

(***************************************************************************)
(* State of one generateText call.                                         *)
(***************************************************************************)
VARIABLES
    pc,            \* "idle", "streaming" (inside the loop over stream.Next()), "done"
    path,          \* "none", "sync", "stream"
    cb,            \* whether a callback was passed
    fullText,      \* the strings.Builder fullText
    toolCallsMap,  \* index -> toolCallAccumulator
    readLog,       \* the chunks stream.Current() has handed out, in order
    sinkLog,       \* the callback invocations: the chunk passed and whether it failed
    events,        \* what the call did, in order
    closed,        \* number of stream.Close() calls
    closeErr,      \* the error stream.Close() returned, "" if none
    transportErr,  \* the error the client call or stream.Err() reported, "" if none
    wire,          \* the complete response of the synchronous call, <<>> if none
    result         \* what the call returned

(***************************************************************************)
(* State of one buildChatCompletionParams call.                            *)
(***************************************************************************)
VARIABLES
    request,       \* the *ai.ModelRequest passed in, <<>> if none
    config,        \* the modelConfig extracted from it, <<>> before the call
    params         \* the ChatCompletionNewParams built, <<>> before the call

(***************************************************************************)
(* State of the plugin value and of the model registry.                    *)
(***************************************************************************)
VARIABLES
    endpoint,      \* the Endpoint field
    initted,       \* whether Init has completed
    models,        \* the registry: deployment name -> ModelOptions
    panics         \* the panics raised so far, in order

(***************************************************************************)
(* State of the calls that run concurrently on the plugin value.           *)
(***************************************************************************)
VARIABLES
    mu,            \* the mutex a.mu: 0 when free, else the call that holds it
    callLog,       \* the calls made so far: operation, position, outcome
    embedders      \* the names DefineEmbedder has registered

genVars == <<pc, path, cb, fullText, toolCallsMap, readLog, sinkLog, events, closed,
             closeErr, transportErr, wire, result>>

buildVars == <<request, config, params>>

pluginVars == <<endpoint, initted, models, panics>>

lockVars == <<mu, callLog, embedders>>

vars == <<genVars, buildVars, pluginVars, lockVars>>

\* no call is running on the plugin value
LockIdle == mu = 0 /\ callLog = <<>> /\ embedders = {}

\* no buildChatCompletionParams call is going on
BuildIdle == request = <<>> /\ config = <<>> /\ params = <<>>

\* the plugin value is left alone
PluginIdle == endpoint = "" /\ initted = FALSE /\ models = <<>> /\ panics = <<>>

\* no generateText call is going on
GenIdle ==
    /\ pc = "idle"
    /\ path = "none"
    /\ cb = FALSE
    /\ fullText = <<>>
    /\ toolCallsMap = <<>>
    /\ readLog = <<>>
    /\ sinkLog = <<>>
    /\ events = <<>>
    /\ closed = 0
    /\ closeErr = ""
    /\ transportErr = ""
    /\ wire = <<>>
    /\ result = NoResult

Init == GenIdle /\ BuildIdle /\ PluginIdle /\ LockIdle

\* generateText without a callback: generateTextSync
GenerateTextSync ==
    /\ pc = "idle"
    /\ \E callErr \in TransportErrors, resp \in SyncResponses :
        /\ transportErr' = callErr
        /\ wire' = IF callErr # "" THEN <<>> ELSE <<resp>>
        /\ result' = syncResult(callErr, resp)
    /\ pc' = "done"
    /\ path' = "sync"
    /\ events' = <<"call", "return">>
    /\ UNCHANGED <<cb, fullText, toolCallsMap, readLog, sinkLog, closed, closeErr>>
    /\ UNCHANGED <<buildVars, pluginVars, lockVars>>

\* generateText with a callback: generateTextStream opens the stream and
\* registers the deferred Close
GenerateTextStream ==
    /\ pc = "idle"
    /\ pc' = "streaming"
    /\ path' = "stream"
    /\ cb' = TRUE
    /\ events' = <<"open">>
    /\ UNCHANGED <<fullText, toolCallsMap, readLog, sinkLog, closed, closeErr, transportErr,
                   wire, result>>
    /\ UNCHANGED <<buildVars, pluginVars, lockVars>>

\* one iteration of the loop: stream.Next() is true and the chunk is processed
StreamNext ==
    /\ pc = "streaming"
    /\ Len(readLog) < MaxDeltas
    /\ \E chunk \in Chunks, sinkErr \in SinkErrors, cerr \in CloseErrors :
        LET hasChoice == Len(chunk.choices) > 0
            delta == chunk.choices[1].delta
            hasText == hasChoice /\ delta.content # <<>>
            invoked == hasChoice /\ sinkInvoked(delta.content, cb)
            abort == sinkAborts(invoked, sinkErr)
        IN  /\ sinkErr # "" => invoked
            /\ cerr # "" => abort
            /\ readLog' = Append(readLog, chunk)
            /\ fullText' = IF hasText THEN fullText \o delta.content ELSE fullText
            /\ sinkLog' = IF invoked
                          THEN Append(sinkLog, [chunk |-> chunkResponse(delta.content),
                                                err |-> sinkErr])
                          ELSE sinkLog
            /\ toolCallsMap' = IF hasChoice /\ ~abort
                               THEN accumulateAll(toolCallsMap, delta.toolCalls)
                               ELSE toolCallsMap
            /\ events' = events \o <<"read">> \o (IF invoked THEN <<"sink">> ELSE <<>>)
                                \o (IF abort THEN <<"close", "return">> ELSE <<>>)
            /\ pc' = loopExit(abort)
            /\ closed' = IF abort THEN closed + 1 ELSE closed
            /\ closeErr' = cerr
            /\ result' = IF abort
                          THEN deferredClose(Failed("streaming callback error", sinkErr), cerr)
                          ELSE result
    /\ UNCHANGED <<path, cb, transportErr, wire>>
    /\ UNCHANGED <<buildVars, pluginVars, lockVars>>

\* stream.Next() is false: the stream.Err() check, the assembly, the
\* deferred Close and the return
StreamEnd ==
    /\ pc = "streaming"
    /\ \E terr \in TransportErrors, order \in Perms(DOMAIN toolCallsMap), cerr \in CloseErrors :
        /\ transportErr' = terr
        /\ closeErr' = cerr
        /\ result' = deferredClose(streamResult(terr, fullText, toolCallsMap, order, readLog),
                                   cerr)
        /\ events' = events \o <<"end", "errcheck">>
                            \o (IF streamErrCheck(terr) THEN <<>> ELSE <<"convert">>)
                            \o <<"close", "return">>
    /\ pc' = "done"
    /\ closed' = closed + 1
    /\ UNCHANGED <<path, cb, fullText, toolCallsMap, readLog, sinkLog, wire>>
    /\ UNCHANGED <<buildVars, pluginVars, lockVars>>

Next == GenerateTextSync \/ GenerateTextStream \/ StreamNext \/ StreamEnd

Spec == Init /\ [][Next]_vars

(***************************************************************************)
(* What the provider sent, read off the log of chunks.                     *)
(***************************************************************************)
Range(q) == {q[k] : k \in DOMAIN q}

Last(q) == q[Len(q)]

\* the deltas received: the delta of the first choice of every chunk that has one
RECURSIVE DeltasOf(_)
DeltasOf(chunks) ==
    IF chunks = <<>> THEN <<>>
    ELSE (IF Head(chunks).choices # <<>> THEN <<Head(chunks).choices[1].delta>> ELSE <<>>)
         \o DeltasOf(Tail(chunks))

Deltas == DeltasOf(readLog)

RECURSIVE ContentsOf(_)
ContentsOf(ds) == IF ds = <<>> THEN <<>> ELSE <<Head(ds).content>> \o ContentsOf(Tail(ds))

DeltaTexts == ContentsOf(Deltas)

NonEmptyDeltaTexts == SelectSeq(DeltaTexts, LAMBDA t : t # <<>>)

\* the texts the callback was given
RECURSIVE TextsOf(_)
TextsOf(log) ==
    IF log = <<>> THEN <<>> ELSE <<Head(log).chunk.content[1].text>> \o TextsOf(Tail(log))

SunkTexts == TextsOf(sinkLog)

SinkFailed == \E k \in DOMAIN sinkLog : sinkLog[k].err # ""

Succeeded == pc = "done" /\ result.response # <<>>

TextParts(r) == SelectSeq(r.content, IsText)

ToolRequestParts(r) == SelectSeq(r.content, IsToolRequest)

\* C1: in a streaming call whose sink never fails, the sink has been invoked
\* once per delta with non-empty text, in arrival order, with a chunk of one
\* Text part holding exactly that delta's text, and never for an empty text;
\* on success the Text part of the response is the concatenation of the
\* texts passed to the sink.
C1_SinkSeesEveryTextDelta ==
    (path = "stream" /\ ~SinkFailed) =>
        LET texts == NonEmptyDeltaTexts
            sunk == Flatten(SunkTexts)
        IN  /\ Len(sinkLog) = Len(texts)
            /\ \A k \in DOMAIN sinkLog :
                  sinkLog[k].chunk.content = <<NewTextPart(texts[k])>>
            /\ Succeeded =>
                  TextParts(result.response[1]) =
                      IF sunk = <<>> THEN <<>> ELSE <<NewTextPart(sunk)>>

\* a successful stream of three deltas, one of them without text, the other
\* two with different texts
C1_Witness ==
    /\ path = "stream" /\ Succeeded /\ ~SinkFailed
    /\ Len(Deltas) = 3
    /\ Len(sinkLog) = 2
    /\ sinkLog[1].chunk # sinkLog[2].chunk
    /\ Len(TextParts(result.response[1])) = 1

\* C2: once a sink invocation has returned an error, the call has returned
\* an error wrapping it and no response; the failing invocation is the last
\* one, and the chunk it was made for is the last chunk read.
C2_SinkFailureAborts ==
    SinkFailed =>
        /\ pc = "done"
        /\ result = Failed("streaming callback error", Last(sinkLog).err)
        /\ \A k \in DOMAIN sinkLog : sinkLog[k].err # "" => k = Len(sinkLog)
        /\ Last(readLog).choices # <<>>
        /\ Last(readLog).choices[1].delta.content = Last(sinkLog).chunk.content[1].text
        /\ Len(sinkLog) = Len(NonEmptyDeltaTexts)

\* the sink fails on the second text delta, with room left for more chunks
C2_Witness ==
    /\ SinkFailed
    /\ Len(sinkLog) = 2
    /\ Len(readLog) < MaxDeltas
    /\ fullText # <<>>

\* the fragments the loop has gone through: those of every delta received
\* (a delta whose sink invocation failed is not gone through)
RECURSIVE ToolCallsOf(_)
ToolCallsOf(ds) == IF ds = <<>> THEN <<>> ELSE Head(ds).toolCalls \o ToolCallsOf(Tail(ds))

Fragments == ToolCallsOf(Deltas)

\* the fragments among fs that carry index i, in order
At(fs, i) == SelectSeq(fs, LAMBDA f : f.index = i)

RECURSIVE ArgumentsOf(_)
ArgumentsOf(fs) == IF fs = <<>> THEN <<>> ELSE Head(fs).arguments \o ArgumentsOf(Tail(fs))

\* C3: the accumulators are those of the indices that occurred; the argument
\* buffer of index i is the concatenation, in arrival order, of the argument
\* texts of exactly the fragments that carried index i; and the whole
\* accumulator of index i (id, name, buffer) is what the fragments of index
\* i alone produce, so fragments of another index never change it.
C3_BuffersNeverMerge ==
    (path = "stream" /\ ~SinkFailed) =>
        LET fs == Fragments
        IN  /\ DOMAIN toolCallsMap = {f.index : f \in Range(fs)}
            /\ \A i \in DOMAIN toolCallsMap :
                  LET mine == At(fs, i)
                  IN  /\ toolCallsMap[i].arguments = ArgumentsOf(mine)
                      /\ toolCallsMap[i] = accumulateAll(<<>>, mine)[i]

\* fragments of two indices interleaved: index 0, then another index, then
\* index 0 again, both buffers non-empty
C3_Witness ==
    /\ path = "stream" /\ ~SinkFailed
    /\ LET fs == Fragments
       IN  /\ Len(fs) >= 3
           /\ fs[1].index = 0 /\ fs[2].index # 0 /\ fs[3].index = 0
           /\ fs[1].arguments # <<>> /\ fs[2].arguments # <<>> /\ fs[3].arguments # <<>>

Parses(arguments) == Unmarshal(arguments).ok

\* an accumulator that has a name and a non-empty buffer that does not decode
Undecodable(i) ==
    /\ toolCallsMap[i].name # ""
    /\ toolCallsMap[i].arguments # <<>>
    /\ ~Parses(toolCallsMap[i].arguments)

\* an accumulator that has a name and a buffer that decodes
WellFormed(i) == toolCallsMap[i].name # "" /\ Parses(toolCallsMap[i].arguments)

\* C4: nothing is returned before the call is done; a call that is done
\* has returned either a response and no error or an error and no response;
\* a terminal error of the transport makes the call return that error,
\* wrapped, and no response, whatever was accumulated.
C4_ErrorOrResponse ==
    /\ pc # "done" => result = NoResult
    /\ pc = "done" => (result.response = <<>>) # (result.error = NoError)
    /\ (pc = "done" /\ transportErr # "") =>
          /\ result.response = <<>>
          /\ result.error =
                Wrap(IF path = "stream" THEN "stream error" ELSE "chat completion failed",
                     transportErr)

\* the stream ends with a transport error after text and a complete,
\* well-formed tool call were accumulated
C4_Witness ==
    /\ pc = "done" /\ path = "stream" /\ transportErr # ""
    /\ fullText # <<>>
    /\ \E i \in DOMAIN toolCallsMap : WellFormed(i) /\ toolCallsMap[i].arguments # <<>>
    /\ \A i \in DOMAIN toolCallsMap : WellFormed(i)

\* C5: a streaming call that ends with a named accumulator whose non-empty
\* buffer does not decode returns an error and no response; when neither the
\* sink nor the transport failed, the error is the conversion error.
C5_DecodeFailureIsFatal ==
    (pc = "done" /\ path = "stream" /\ \E i \in DOMAIN toolCallsMap : Undecodable(i)) =>
        /\ result.response = <<>>
        /\ result.error # NoError
        /\ (~SinkFailed /\ transportErr = "") =>
              result.error.msg = "failed to convert tool calls"

\* the conversion fails although text and a well-formed tool call of another
\* index were accumulated
C5_Witness ==
    /\ pc = "done" /\ path = "stream"
    /\ result.error.msg = "failed to convert tool calls"
    /\ fullText # <<>>
    /\ \E i, j \in DOMAIN toolCallsMap : Undecodable(i) /\ WellFormed(j)

\* the tool calls of the first choice of the complete response
WireToolCalls == wire[1].choices[1].message.toolCalls

ConvertibleCalls ==
    SelectSeq(WireToolCalls, LAMBDA tc : tc.id # "" /\ Parses(tc.arguments))

\* C6: the synchronous response holds, in wire order, one ToolRequest part
\* (name and decoded arguments) per tool call of the first choice that has a
\* non-empty id and arguments that decode, and none for any other; a tool
\* call that does not decode neither fails the call nor removes the Text part.
C6_SyncToolRequests ==
    (path = "sync" /\ wire # <<>> /\ wire[1].choices # <<>>) =>
        /\ result.error = NoError
        /\ result.response # <<>>
        /\ LET calls == ConvertibleCalls
           IN  ToolRequestParts(result.response[1]) =
                  [k \in 1..Len(calls) |->
                      NewToolRequestPart(calls[k].name, Unmarshal(calls[k].arguments).args)]
        /\ wire[1].choices[1].message.content # <<>> =>
              TextParts(result.response[1]) =
                  <<NewTextPart(wire[1].choices[1].message.content)>>

\* text, a tool call that does not decode first, then one that does
C6_Witness ==
    /\ path = "sync" /\ wire # <<>> /\ wire[1].choices # <<>>
    /\ wire[1].choices[1].message.content # <<>>
    /\ Len(WireToolCalls) = 2
    /\ WireToolCalls[1].id # "" /\ ~Parses(WireToolCalls[1].arguments)
    /\ WireToolCalls[2].id # "" /\ Parses(WireToolCalls[2].arguments)
    /\ Len(result.response[1].content) = 2

\* the text the provider sent in the call
ReceivedText ==
    IF path = "stream" THEN Flatten(DeltaTexts)
    ELSE IF wire # <<>> /\ wire[1].choices # <<>> THEN wire[1].choices[1].message.content
         ELSE <<>>

\* C7: every response returned has role model and at most one Text part,
\* has a Text part exactly when the text received is not empty, and has no
\* Text part after a ToolRequest part.
C7_ResponseShape ==
    result.response # <<>> =>
        LET r == result.response[1]
        IN  /\ r.role = "model"
            /\ Len(TextParts(r)) <= 1
            /\ (Len(TextParts(r)) = 1) <=> (ReceivedText # <<>>)
            /\ \A a, b \in DOMAIN r.content :
                  (IsToolRequest(r.content[a]) /\ IsText(r.content[b])) => b < a

\* a streamed response with a Text part followed by ToolRequest parts
C7_Witness ==
    /\ path = "stream" /\ Succeeded
    /\ Len(TextParts(result.response[1])) = 1
    /\ Len(ToolRequestParts(result.response[1])) >= 1

\* C8: every response the streaming path returns has FinishReason stop.
C8_StreamFinishReasonStop ==
    (path = "stream" /\ result.response # <<>>) => result.response[1].finishReason = "stop"

\* a stream whose last chunk reports finish reason length and that carried
\* neither text nor tool calls
C8_Witness ==
    /\ path = "stream" /\ Succeeded
    /\ readLog # <<>>
    /\ Last(readLog).choices # <<>>
    /\ Last(readLog).choices[1].finishReason \in {"length", "content_filter"}
    /\ result.response[1].content = <<>>

\* C9: convertFinishReason, as applied to the finish reason of the first
\* choice: stop -> stop, length -> length, content_filter -> blocked,
\* tool_calls and function_call -> stop, anything else (the empty string
\* included) -> other, never unknown.
C9_FinishReasonTable ==
    (path = "sync" /\ wire # <<>> /\ wire[1].choices # <<>> /\ result.response # <<>>) =>
        LET reason == wire[1].choices[1].finishReason
            fr == result.response[1].finishReason
        IN  /\ reason = "stop" => fr = "stop"
            /\ reason = "length" => fr = "length"
            /\ reason = "content_filter" => fr = "blocked"
            /\ reason = "tool_calls" => fr = "stop"
            /\ reason = "function_call" => fr = "stop"
            /\ reason \notin {"stop", "length", "content_filter", "tool_calls", "function_call"}
                  => fr = "other"
            /\ fr # "unknown"

\* a response whose finish reason is the empty string
C9_Witness ==
    /\ path = "sync" /\ Succeeded /\ wire[1].choices # <<>>
    /\ wire[1].choices[1].finishReason = ""
    /\ result.response[1].finishReason = "other"

\* C10: a complete response without choices gives role model, no part,
\* FinishReason unknown and no error; no other call returns unknown.
C10_ZeroChoices ==
    /\ (path = "sync" /\ wire # <<>> /\ wire[1].choices = <<>>) =>
          /\ result.error = NoError
          /\ result.response # <<>>
          /\ result.response[1].role = "model"
          /\ result.response[1].content = <<>>
          /\ result.response[1].finishReason = "unknown"
    /\ (result.response # <<>> /\ result.response[1].finishReason = "unknown") =>
          (path = "sync" /\ wire # <<>> /\ wire[1].choices = <<>>)

\* a complete response without choices has been converted
C10_Witness ==
    /\ path = "sync" /\ pc = "done" /\ wire # <<>> /\ wire[1].choices = <<>>
    /\ result.response # <<>>

\* C11: for a complete response with at least one choice, the usage of the
\* response equals the wire counters when the wire input-token count is
\* positive and is all zero otherwise, even when the wire output or total
\* count is positive.
C11_UsageCopiedWhenInputPositive ==
    (path = "sync" /\ wire # <<>> /\ wire[1].choices # <<>>) =>
        /\ result.response # <<>>
        /\ Len(result.response[1].usage) = 1
        /\ LET u == result.response[1].usage[1]
               w == wire[1].usage
           IN  IF w.promptTokens > 0
               THEN /\ u.inputTokens = w.promptTokens
                    /\ u.outputTokens = w.completionTokens
                    /\ u.totalTokens = w.totalTokens
               ELSE u.inputTokens = 0 /\ u.outputTokens = 0 /\ u.totalTokens = 0

\* the wire reports no input tokens but some output tokens
C11_Witness ==
    /\ path = "sync" /\ Succeeded /\ wire[1].choices # <<>>
    /\ wire[1].usage.promptTokens = 0
    /\ wire[1].usage.completionTokens > 0
    /\ result.response[1].usage[1].outputTokens = 0

(***************************************************************************)
(* Request building: convertMessagesToOpenAI, extractConfigFromRequest,    *)
(* buildChatCompletionParams.                                              *)
(***************************************************************************)
\* values put in a ToolRequest input or a ToolResponse output: nil, an
\* object with the given keys; the key "!" stands for a member that
\* encoding/json cannot encode (a channel, a function)
EmptyObject == [isNil |-> FALSE, keys |-> {}]

ObjectA == [isNil |-> FALSE, keys |-> {"a"}]

Unencodable == [isNil |-> FALSE, keys |-> {"!"}]

\* encoding/json.Marshal, as called at lines 228 and 264, on these values
Marshal(v) ==
    IF v.isNil THEN [ok |-> TRUE, json |-> <<"n">>]
    ELSE IF "!" \in v.keys THEN [ok |-> FALSE, json |-> <<>>]
         ELSE [ok |-> TRUE,
               json |-> <<"{">> \o (IF "a" \in v.keys THEN <<"a">> ELSE <<>>) \o <<"}">>]

\* ai.NewMediaPart: the Text field of a media part holds its contents
NewMediaPart(ct, contents) == [kind |-> "media", text |-> contents, contentType |-> ct]

NewToolResponsePart(n, out) ==
    [kind |-> "toolResponse", text |-> <<>>, name |-> n, output |-> out]

IsToolResponse(p) == p.kind = "toolResponse"

Message(role, parts) == [role |-> role, content |-> parts]

\* variant: the id is the bare tool name
callID_bare(name) == <<name>>

\* fmt.Sprintf("call_%s", toolReq.Name)
callID(name) == <<"call_", name>>

\* variant: the id of a tool result is the bare tool name
toolCallID_bare(name) == <<name>>

\* fmt.Sprintf("call_%s", toolResp.Name)
toolCallID(name) == <<"call_", name>>

\* variant: a message with a single part is skipped too
skipMessage_offByOne(content) == Len(content) <= 1

\* messages with no content are skipped
skipMessage(content) == Len(content) = 0

\* the content of a system or user wire message: msg.Content[0].Text
firstPartText(content) == content[1].text

\* variant: a part that cannot be encoded is sent with empty JSON
marshalFailed_never(ok) == FALSE

\* `if err != nil { continue }` after json.Marshal
marshalFailed(ok) == ~ok

\* the loop over the parts of a model message: the text
RECURSIVE modelText(_)
modelText(parts) ==
    IF parts = <<>> THEN <<>>
    ELSE (IF IsText(Head(parts)) THEN Head(parts).text ELSE <<>>) \o modelText(Tail(parts))

\* the loop over the parts of a model message: the tool calls
RECURSIVE modelToolCalls(_)
modelToolCalls(parts) ==
    IF parts = <<>> THEN <<>>
    ELSE LET part == Head(parts)
             rest == modelToolCalls(Tail(parts))
         IN  IF ~IsText(part) /\ IsToolRequest(part)
             THEN LET argsJSON == Marshal(part.input)
                  IN  IF marshalFailed(argsJSON.ok) THEN rest
                      ELSE <<[id |-> callID(part.name), type |-> "function",
                              name |-> part.name, arguments |-> argsJSON.json]>> \o rest
             ELSE rest

\* variant: the tool-call list is always assigned
assistantToolCalls_always(toolCalls) == <<toolCalls>>

\* the ToolCalls field of the assistant message: <<>> when left unset
assistantToolCalls(toolCalls) == IF Len(toolCalls) > 0 THEN <<toolCalls>> ELSE <<>>

\* the loop over the parts of a tool message
RECURSIVE toolMessages(_)
toolMessages(parts) ==
    IF parts = <<>> THEN <<>>
    ELSE LET part == Head(parts)
             rest == toolMessages(Tail(parts))
         IN  IF IsToolResponse(part)
             THEN LET outputJSON == Marshal(part.output)
                  IN  IF marshalFailed(outputJSON.ok) THEN rest
                      ELSE <<[role |-> "tool", content |-> outputJSON.json,
                              toolCallID |-> toolCallID(part.name)]>> \o rest
             ELSE rest

\* the body of the loop over the messages
convertMessage(msg) ==
    IF skipMessage(msg.content) THEN <<>>
    ELSE CASE msg.role = "system" ->
                <<[role |-> "system", content |-> firstPartText(msg.content)]>>
           [] msg.role = "user" ->
                <<[role |-> "user", content |-> firstPartText(msg.content)]>>
           [] msg.role = "model" ->
                <<[role |-> "assistant", content |-> modelText(msg.content),
                   toolCalls |-> assistantToolCalls(modelToolCalls(msg.content))]>>
           [] msg.role = "tool" -> toolMessages(msg.content)
           [] OTHER -> <<>>

\* variant: the wire messages of a message are put in front of the list
appendMessages_inFront(first, rest) == rest \o first

\* openAIMessages = append(openAIMessages, ...): the wire messages of a
\* message come before those of the messages after it
appendMessages(first, rest) == first \o rest

RECURSIVE convertMessagesToOpenAI(_)
convertMessagesToOpenAI(messages) ==
    IF messages = <<>> THEN <<>>
    ELSE appendMessages(convertMessage(Head(messages)),
                        convertMessagesToOpenAI(Tail(messages)))

\* a value of dynamic type held in the configuration map; floats are
\* counted in tenths
Dyn(type, num, str) == [type |-> type, num |-> num, str |-> str]

\* variant: the dynamic type is not checked
hasType_any(m, key, type) == key \in DOMAIN m

\* configMap[key].(type) succeeds
hasType(m, key, type) == key \in DOMAIN m /\ m[key].type = type

NoConfig == [maxTokens |-> <<>>, temperature |-> <<>>, topP |-> <<>>, toolChoice |-> ""]

\* input.Config is nil, a value that is not a map[string]interface{}, or a map
extractConfigFromRequest(input) ==
    IF input.config.kind = "nil" THEN NoConfig
    ELSE IF input.config.kind # "map" THEN NoConfig
         ELSE LET configMap == input.config.entries
              IN  [maxTokens |-> IF hasType(configMap, "maxOutputTokens", "int")
                                 THEN <<configMap["maxOutputTokens"].num>> ELSE <<>>,
                   temperature |-> IF hasType(configMap, "temperature", "float64")
                                   THEN <<configMap["temperature"].num>> ELSE <<>>,
                   topP |-> IF hasType(configMap, "topP", "float64")
                            THEN <<configMap["topP"].num>> ELSE <<>>,
                   toolChoice |-> IF hasType(configMap, "toolChoice", "string")
                                  THEN configMap["toolChoice"].str ELSE ""]

\* the conversion of one tool definition
functionTool(tool) ==
    [name |-> tool.name,
     description |-> IF tool.description # "" THEN <<tool.description>> ELSE <<>>,
     parameters |-> tool.inputSchema]

\* variant: the tool choice is set whether or not tools were passed
toolChoiceConsidered_always(tools) == TRUE

\* the tool choice is looked at only inside `if len(input.Tools) > 0`
toolChoiceConsidered(tools) == Len(tools) > 0

\* the switch on config.toolChoice
toolChoiceParam(toolChoice) ==
    CASE toolChoice = "auto" -> <<"auto">>
      [] toolChoice = "required" -> <<"required">>
      [] toolChoice = "none" -> <<"none">>
      [] OTHER -> <<>>

\* buildChatCompletionParams, given the configuration it extracted
buildChatCompletionParams(input, modelName, cfg) ==
    [model |-> modelName,
     messages |-> convertMessagesToOpenAI(input.messages),
     maxTokens |-> cfg.maxTokens,
     temperature |-> cfg.temperature,
     topP |-> cfg.topP,
     tools |-> [k \in 1..Len(input.tools) |-> functionTool(input.tools[k])],
     toolChoice |-> IF toolChoiceConsidered(input.tools)
                    THEN toolChoiceParam(cfg.toolChoice) ELSE <<>>]

(***************************************************************************)
(* Inputs: the requests the framework can pass.                            *)
(***************************************************************************)
Roles == {"system", "user", "model", "tool"}

\* the parts the messages of a role are made of
RoleParts(role) ==
    CASE role = "system" -> {NewTextPart(<<"q">>)}
      [] role = "user" -> {NewTextPart(<<"p">>), NewMediaPart("image/jpeg", <<"u">>)}
      [] role = "model" -> {NewTextPart(<<"p">>), NewToolRequestPart("foo", ObjectA)}
      [] role = "tool" -> {NewToolResponsePart("foo", ObjectA), NewTextPart(<<"p">>)}

\* messages with a part that cannot be encoded, with a nil value, with two
\* tool names, and a system message that starts with a media part
OtherMessages ==
    {Message("model", <<NewToolRequestPart("bar", Unencodable),
                        NewToolRequestPart("foo", EmptyObject)>>),
     Message("model", <<NewTextPart(<<"q">>), NewToolRequestPart("bar", NilArgs)>>),
     Message("model", <<NewToolRequestPart("bar", EmptyObject),
                        NewToolRequestPart("foo", ObjectA)>>),
     Message("model", <<NewToolRequestPart("bar", Unencodable)>>),
     Message("tool", <<NewToolResponsePart("bar", Unencodable),
                       NewToolResponsePart("foo", EmptyObject)>>),
     Message("tool", <<NewToolResponsePart("bar", NilArgs),
                       NewToolResponsePart("foo", ObjectA)>>),
     Message("system", <<NewMediaPart("image/jpeg", <<"u">>), NewTextPart(<<"p">>)>>)}

Messages ==
    {Message(r[1], r[2]) : r \in UNION {{<<role, ps>> : ps \in SeqsUpTo(RoleParts(role), MaxParts)} :
                                         role \in Roles}}

ConfigEntries(key) ==
    CASE key = "maxOutputTokens" ->
            {Dyn("int", 1000, ""), Dyn("float64", 10000, ""), Dyn("string", 0, "1000")}
      [] key = "temperature" -> {Dyn("float64", 1, ""), Dyn("int", 1, "")}
      [] key = "topP" -> {Dyn("float64", 9, ""), Dyn("string", 0, "high")}
      [] key = "toolChoice" ->
            {Dyn("string", 0, "auto"), Dyn("string", 0, "required"), Dyn("string", 0, "none"),
             Dyn("string", 0, "any"), Dyn("int", 1, "")}

ConfigKeys == {"maxOutputTokens", "temperature", "topP", "toolChoice"}

ConfigMaps ==
    UNION {{m \in [ks -> UNION {ConfigEntries(k) : k \in ks}] :
                \A k \in ks : m[k] \in ConfigEntries(k)} : ks \in SUBSET ConfigKeys}

Configs ==
    {[kind |-> "nil", entries |-> <<>>], [kind |-> "struct", entries |-> <<>>]}
    \cup {[kind |-> "map", entries |-> m] : m \in ConfigMaps}

ToolDefinitions ==
    {[name |-> "foo", description |-> "looks things up", inputSchema |-> <<"schema">>],
     [name |-> "bar", description |-> "", inputSchema |-> <<>>]}

Request(msgs, cfg, tools) == [messages |-> msgs, config |-> cfg, tools |-> tools]

\* one of the other messages alone, after a system message or before a user
\* message
OtherConversations ==
    {<<m>> : m \in OtherMessages}
    \cup {<<Message("system", <<NewTextPart(<<"q">>)>>), m>> : m \in OtherMessages}
    \cup {<<m, Message("user", <<NewTextPart(<<"p">>)>>)>> : m \in OtherMessages}

\* any conversation of these messages, or one with one of the other
\* messages, without configuration or tools, or one user message with any
\* configuration and any tools
Requests(maxMessages, maxTools) ==
    {Request(msgs, [kind |-> "nil", entries |-> <<>>], <<>>) :
        msgs \in SeqsUpTo(Messages, maxMessages) \cup OtherConversations}
    \cup {Request(<<Message("user", <<NewTextPart(<<"p">>)>>)>>, cfg, tools) :
            cfg \in Configs, tools \in SeqsUpTo(ToolDefinitions, maxTools)}

\* a request comes in
InitBuild ==
    /\ GenIdle /\ PluginIdle /\ LockIdle
    /\ request \in {<<r>> : r \in Requests(MaxMessages, MaxTools)}
    /\ config = <<>>
    /\ params = <<>>

\* buildChatCompletionParams, as generateText calls it
BuildChatCompletionParams ==
    /\ request # <<>>
    /\ params = <<>>
    /\ LET cfg == extractConfigFromRequest(request[1])
       IN  /\ config' = <<cfg>>
           /\ params' = <<buildChatCompletionParams(request[1], "gpt-4o", cfg)>>
    /\ UNCHANGED <<request, genVars, pluginVars, lockVars>>

NextBuild == BuildChatCompletionParams

SpecBuild == InitBuild /\ [][NextBuild]_vars

(***************************************************************************)
(* Claims about request building.                                          *)
(***************************************************************************)
Built == request # <<>> /\ params # <<>>

TextOnly(msgs) ==
    \A k \in 1..Len(msgs) : \A i \in 1..Len(msgs[k].content) : IsText(msgs[k].content[i])

CountWhere(msgs, P(_)) == Cardinality({k \in 1..Len(msgs) : P(msgs[k])})

HasParts(msg) == Len(msg.content) > 0

HasPartsNotTool(msg) == Len(msg.content) > 0 /\ msg.role # "tool"

Serializable(v) == Marshal(v).ok

KeptRequest(p) == p.kind = "toolRequest" /\ Serializable(p.input)

KeptResponse(p) == p.kind = "toolResponse" /\ Serializable(p.output)

\* the number of wire messages an input message stands for
WireCount(msg) ==
    IF Len(msg.content) = 0 THEN 0
    ELSE IF msg.role = "tool" THEN Len(SelectSeq(msg.content, KeptResponse))
         ELSE 1

RECURSIVE WireOffset(_, _)
WireOffset(msgs, k) == IF k <= 1 THEN 0 ELSE WireOffset(msgs, k - 1) + WireCount(msgs[k - 1])

WireAligned(msgs, out) == Len(out) = WireOffset(msgs, Len(msgs) + 1)

\* C12 as stated: for every sequence of messages holding only Text parts,
\* whatever the roles, the number of wire messages equals the number of input
\* messages with at least one part
C12_TextOnlyCount ==
    Built => LET msgs == request[1].messages
             IN  TextOnly(msgs) => Len(params[1].messages) = CountWhere(msgs, HasParts)

\* C12 amended: for every sequence of messages holding only Text parts, the
\* number of wire messages equals the number of system, user and model
\* messages with at least one part; messages with zero parts and text-only
\* tool messages produce none
C12_TextOnlyCountExceptTool ==
    Built => LET msgs == request[1].messages
             IN  TextOnly(msgs) => Len(params[1].messages) = CountWhere(msgs, HasPartsNotTool)

C12_Witness ==
    /\ Built
    /\ LET msgs == request[1].messages
       IN  /\ TextOnly(msgs)
           /\ Len(msgs) = 2
           /\ msgs[1].role = "tool" /\ Len(msgs[1].content) = 1
           /\ msgs[2].role = "user" /\ Len(msgs[2].content) = 2
           /\ Len(params[1].messages) = 1

FirstTextOf(content) == SelectSeq(content, IsText)[1].text

HasTextPart(msg) == \E i \in 1..Len(msg.content) : IsText(msg.content[i])

SystemOrUserWithText(msg) == msg.role \in {"system", "user"} /\ HasTextPart(msg)

\* C13 as stated: the wire content of a system or user message is the text of
\* its first Text part, also when that part is not the first part
C13_FirstTextPart ==
    Built => LET msgs == request[1].messages
                 out == params[1].messages
             IN  \A k \in 1..Len(msgs) :
                    SystemOrUserWithText(msgs[k]) =>
                        /\ WireOffset(msgs, k) + 1 <= Len(out)
                        /\ out[WireOffset(msgs, k) + 1].content = FirstTextOf(msgs[k].content)

ExpectedCall(p) ==
    [id |-> <<"call_", p.name>>, type |-> "function", name |-> p.name,
     arguments |-> Marshal(p.input).json]

ExpectedCalls(content) ==
    LET kept == SelectSeq(content, KeptRequest)
    IN  [i \in 1..Len(kept) |-> ExpectedCall(kept[i])]

ExpectedText(content) ==
    LET texts == SelectSeq(content, IsText)
    IN  Flatten([i \in 1..Len(texts) |-> texts[i].text])

\* C14: a model message with at least one part produces exactly one assistant
\* message: its text is the Text parts concatenated in order, its tool calls
\* are one per serializable ToolRequest part in order (name, serialized
\* input, id "call_" + name), and the list is absent when there is none
C14_AssistantMessage ==
    Built => LET msgs == request[1].messages
                 out == params[1].messages
             IN  /\ WireAligned(msgs, out)
                 /\ \A k \in 1..Len(msgs) :
                        (msgs[k].role = "model" /\ HasParts(msgs[k])) =>
                            LET w == out[WireOffset(msgs, k) + 1]
                                calls == ExpectedCalls(msgs[k].content)
                            IN  /\ w.role = "assistant"
                                /\ w.content = ExpectedText(msgs[k].content)
                                /\ w.toolCalls = IF calls = <<>> THEN <<>> ELSE <<calls>>

C14_Witness ==
    /\ Built
    /\ \E k \in 1..Len(request[1].messages) :
          LET msg == request[1].messages[k]
          IN  /\ msg.role = "model" /\ Len(msg.content) = 2
              /\ msg.content[1].kind = "toolRequest" /\ ~Serializable(msg.content[1].input)
              /\ KeptRequest(msg.content[2])
              /\ Len(params[1].messages[WireOffset(request[1].messages, k) + 1].toolCalls[1]) = 1

\* C15: a tool message produces one tool-result message per serializable
\* ToolResponse part, in order, with the serialized output as content and id
\* "call_" + name, equal to the id of a ToolRequest of that name in a
\* preceding model message; its other parts produce nothing
C15_ToolResultMessages ==
    Built => LET msgs == request[1].messages
                 out == params[1].messages
             IN  /\ WireAligned(msgs, out)
                 /\ \A k \in 1..Len(msgs) :
                        msgs[k].role = "tool" =>
                            LET kept == SelectSeq(msgs[k].content, KeptResponse)
                            IN  \A i \in 1..Len(kept) :
                                   LET w == out[WireOffset(msgs, k) + i]
                                   IN  /\ w.role = "tool"
                                       /\ w.content = Marshal(kept[i].output).json
                                       /\ w.toolCallID = <<"call_", kept[i].name>>
                                       /\ \A j \in 1..(k - 1) :
                                             (msgs[j].role = "model" /\ HasParts(msgs[j])) =>
                                                \A c \in Range(out[WireOffset(msgs, j) + 1].toolCalls) :
                                                   \A q \in 1..Len(c) :
                                                      c[q].name = kept[i].name =>
                                                          c[q].id = w.toolCallID

C15_Witness ==
    /\ Built
    /\ LET msgs == request[1].messages
           out == params[1].messages
       IN  /\ Len(msgs) = 2 /\ Len(out) = 2
           /\ msgs[1].role = "model" /\ msgs[2].role = "tool"
           /\ Len(msgs[2].content) = 2 /\ ~IsToolResponse(msgs[2].content[2])
           /\ out[1].toolCalls # <<>>
           /\ out[1].toolCalls[1][1].name = msgs[2].content[1].name
           /\ out[2].toolCallID = out[1].toolCalls[1][1].id

Present(cfg, key, type) ==
    cfg.kind = "map" /\ key \in DOMAIN cfg.entries /\ cfg.entries[key].type = type

Extracted(cfg, key, type) ==
    IF Present(cfg, key, type) THEN <<cfg.entries[key].num>> ELSE <<>>

\* C16: extractConfigFromRequest returns a configuration for every
\* configuration value; each of max tokens, temperature, top-p and tool
\* choice is set exactly when its key is present with the expected dynamic
\* type, whatever the other entries are, and the request carries them
C16_BestEffortConfig ==
    Built => LET cfg == request[1].config
             IN  /\ config # <<>>
                 /\ config[1].maxTokens = Extracted(cfg, "maxOutputTokens", "int")
                 /\ config[1].temperature = Extracted(cfg, "temperature", "float64")
                 /\ config[1].topP = Extracted(cfg, "topP", "float64")
                 /\ config[1].toolChoice = IF Present(cfg, "toolChoice", "string")
                                           THEN cfg.entries["toolChoice"].str ELSE ""
                 /\ params[1].maxTokens = config[1].maxTokens
                 /\ params[1].temperature = config[1].temperature
                 /\ params[1].topP = config[1].topP

C16_Witness ==
    /\ Built
    /\ LET cfg == request[1].config
       IN  /\ cfg.kind = "map"
           /\ DOMAIN cfg.entries = {"maxOutputTokens", "temperature", "topP", "toolChoice"}
           /\ cfg.entries["maxOutputTokens"].type = "float64"
           /\ cfg.entries["topP"].type = "string"
           /\ config[1].maxTokens = <<>>
           /\ config[1].temperature = <<1>>
           /\ config[1].topP = <<>>
           /\ config[1].toolChoice = "auto"

ToolChoiceLiterals == {"auto", "required", "none"}

\* C17: the request carries a tool choice exactly when it has at least one
\* tool and the configured toolChoice is "auto", "required" or "none", and
\* then that literal; otherwise the field is unset and the request is built
C17_ToolChoice ==
    Built => LET cfg == request[1].config
                 choice == IF Present(cfg, "toolChoice", "string")
                           THEN cfg.entries["toolChoice"].str ELSE ""
             IN  params[1].toolChoice =
                    IF Len(request[1].tools) > 0 /\ choice \in ToolChoiceLiterals
                    THEN <<choice>> ELSE <<>>

C17_Witness ==
    /\ Built
    /\ Len(request[1].tools) > 0
    /\ Present(request[1].config, "toolChoice", "string")
    /\ request[1].config.entries["toolChoice"].str = "required"
    /\ params[1].toolChoice = <<"required">>

(***************************************************************************)
(* Claims about the order of the steps of a streaming call.                *)
(***************************************************************************)
RECURSIVE CountOf(_, _)
CountOf(seq, e) ==
    IF seq = <<>> THEN 0 ELSE (IF Head(seq) = e THEN 1 ELSE 0) + CountOf(Tail(seq), e)

\* what a finished streaming call returns, from what happened in it
StreamOutcomeAsExpected ==
    IF SinkFailed THEN result = Failed("streaming callback error", Last(sinkLog).err)
    ELSE IF transportErr # "" THEN result = Failed("stream error", transportErr)
         ELSE IF \E i \in DOMAIN toolCallsMap : Undecodable(i)
              THEN result.response = <<>> /\ result.error.msg = "failed to convert tool calls"
              ELSE result.response # <<>> /\ result.error = NoError

\* C18: a streaming call invokes Close exactly once, after the last read and
\* just before it returns, on every exit path (success, sink failure,
\* transport error, decode failure); before that Close has not been invoked;
\* what the call returns does not depend on the error of Close
C18_CloseExactlyOnce ==
    path = "stream" =>
        LET n == Len(events)
        IN  /\ pc = "streaming" => closed = 0 /\ CountOf(events, "close") = 0
            /\ pc = "done" =>
                  /\ closed = 1
                  /\ CountOf(events, "close") = 1
                  /\ events[n - 1] = "close" /\ events[n] = "return"
                  /\ \A k \in 1..n : events[k] = "read" => k < n - 1
                  /\ StreamOutcomeAsExpected

\* Close fails after a stream that delivered text and ended well
C18_Witness ==
    /\ path = "stream" /\ pc = "done"
    /\ closeErr # ""
    /\ closed = 1
    /\ Len(readLog) >= 2
    /\ result.response # <<>> /\ result.error = NoError

\* C19: a streaming call shows zero or more sink invocations and then exactly
\* one outcome: every sink invocation directly follows the read of its delta
\* and is followed by the next read, the end of the stream or the abort; a
\* failing invocation is the last one; the call returns once, as its last
\* step, with either a response or an error
C19_SinksThenOneOutcome ==
    path = "stream" =>
        LET n == Len(events)
        IN  /\ CountOf(events, "sink") = Len(sinkLog)
            /\ \A k \in 1..n :
                  events[k] = "sink" =>
                      /\ k > 1 /\ events[k - 1] = "read"
                      /\ k < n => events[k + 1] \in {"read", "end", "close"}
                      /\ (k < n /\ events[k + 1] = "close") => SinkFailed
            /\ \A k \in DOMAIN sinkLog : sinkLog[k].err # "" => k = Len(sinkLog)
            /\ SinkFailed => (n >= 3 /\ SubSeq(events, n - 2, n) = <<"sink", "close", "return">>)
            /\ CountOf(events, "return") = IF pc = "done" THEN 1 ELSE 0
            /\ pc = "done" => /\ events[n] = "return"
                              /\ (result.response = <<>>) # (result.error = NoError)
            /\ pc # "done" => result = NoResult

\* two invocations went well and the third one failed
C19_Witness ==
    /\ path = "stream" /\ pc = "done"
    /\ Len(sinkLog) = 3
    /\ SinkFailed
    /\ CountOf(events, "return") = 1

(***************************************************************************)
(* The plugin value: Init, DefineModel, DefineCommonModels.  A handler     *)
(* holds a.mu from its first statement to its return, so each is one step. *)
(***************************************************************************)
\* strings.ToLower, on the letters the names are made of
LowerOf(c) ==
    CASE c = "G" -> "g" [] c = "P" -> "p" [] c = "T" -> "t" [] c = "O" -> "o" [] OTHER -> c

ToLower(str) == [i \in 1..Len(str) |-> LowerOf(str[i])]

\* strings.Contains
Contains(str, substr) ==
    \E i \in 1..(Len(str) - Len(substr) + 1) : SubSeq(str, i, i + Len(substr) - 1) = substr

\* deployment names, as sequences of characters
GPT5 == <<"g", "p", "t", "-", "5">>

GPT5MINI == <<"g", "p", "t", "-", "5", "-", "m", "i", "n", "i">>

GPT4O == <<"g", "p", "t", "-", "4", "o">>

GPT4OMINI == <<"g", "p", "t", "-", "4", "o", "-", "m", "i", "n", "i">>

GPT4TURBO == <<"g", "p", "t", "-", "4", "-", "t", "u", "r", "b", "o">>

GPT4 == <<"g", "p", "t", "-", "4">>

GPT35TURBO == <<"g", "p", "t", "-", "3", "5", "-", "t", "u", "r", "b", "o">>

GPT35DOT == <<"g", "p", "t", "-", "3", ".", "5", "-", "t", "u", "r", "b", "o">>

GPT4OUPPER == <<"G", "P", "T", "-", "4", "O">>

LLAMA == <<"l", "l", "a", "m", "a">>

\* the names DefineCommonModels defines, in its order
CommonModelNames ==
    <<GPT5, GPT5MINI, GPT4O, GPT4OMINI, GPT4TURBO, GPT4, GPT35TURBO>>

\* the SupportsVision field DefineCommonModels passes with each name
CommonSupportsVision == <<TRUE, TRUE, TRUE, TRUE, TRUE, FALSE, FALSE>>

\* deployment names: the common ones, the dotted spelling, an upper-case
\* spelling and a deployment of another family
ModelNames ==
    Range(CommonModelNames) \cup {GPT35DOT, GPT4OUPPER, LLAMA}

\* an *ai.ModelInfo passed explicitly
ExplicitInfo ==
    [label |-> <<"m", "y">>,
     supports |-> [multiturn |-> FALSE, tools |-> FALSE, systemRole |-> FALSE, media |-> TRUE]]

\* the info argument of DefineModel: nil or explicit
Infos == {<<>>, <<ExplicitInfo>>}

Endpoints == {"", "https://x.openai.azure.com"}

ModelDefinition(name, type, supportsVision) ==
    [name |-> name, type |-> type, supportsVision |-> supportsVision]

inferModelCapabilities(modelName, modelType, supportsVision) ==
    LET supportsTools == \/ Contains(ToLower(modelName), <<"g", "p", "t", "-", "4">>)
                         \/ Contains(ToLower(modelName), GPT35TURBO)
                         \/ Contains(ToLower(modelName), GPT35DOT)
    IN  [label |-> modelName,
         supports |-> [multiturn |-> TRUE, tools |-> supportsTools, systemRole |-> TRUE,
                       media |-> supportsVision]]

\* the ai.ModelOptions DefineModel registers under the name; inferred
\* records that no info was passed
modelOptions(model, info) ==
    LET used == IF info = <<>>
                THEN inferModelCapabilities(model.name, model.type, model.supportsVision)
                ELSE info[1]
    IN  [label |-> <<"azureaifoundry-">> \o model.name,
         supports |-> used.supports,
         inferred |-> info = <<>>]

\* the registry after the definitions of defs, in order
RECURSIVE defineAll(_, _)
defineAll(registry, defs) ==
    IF defs = <<>> THEN registry
    ELSE defineAll((defs[1].name :> modelOptions(defs[1], <<>>)) @@ registry, Tail(defs))

\* a plugin value is constructed with some Endpoint
InitPlugin ==
    /\ GenIdle /\ BuildIdle /\ LockIdle
    /\ endpoint \in Endpoints
    /\ initted = FALSE
    /\ models = <<>>
    /\ panics = <<>>

\* Init
\* the body of Init: the flag it leaves and "ok" or the panic it raises;
\* credFails is whether azidentity.NewDefaultAzureCredential reports an error
initBody(flag, ep, credFails) ==
    IF flag THEN [initted |-> flag, outcome |-> "azureaifoundry: Init already called"]
    ELSE IF ep = "" THEN [initted |-> flag, outcome |-> "azureaifoundry: Endpoint is required"]
         ELSE IF credFails
              THEN [initted |-> flag,
                    outcome |-> "azureaifoundry: failed to create default credential"]
              ELSE [initted |-> TRUE, outcome |-> "ok"]

PluginInit ==
    /\ Len(panics) < MaxPanics
    /\ \E credFails \in BOOLEAN :
          LET r == initBody(initted, endpoint, credFails)
          IN  /\ initted' = r.initted
              /\ panics' = IF r.outcome = "ok" THEN panics
                                               ELSE Append(panics, r.outcome)
    /\ UNCHANGED <<endpoint, models, genVars, buildVars, lockVars>>

\* DefineModel, for a name that is not yet in the registry
DefineModel ==
    /\ Len(panics) < MaxPanics
    /\ Cardinality(DOMAIN models) < MaxModels
    /\ \E name \in ModelNames \ DOMAIN models, vision \in BOOLEAN, info \in Infos :
          LET model == ModelDefinition(name, "chat", vision)
          IN  /\ info # <<>> => ~vision
              /\ IF ~initted
                 THEN /\ panics' = Append(panics, "azureaifoundry: Init not called")
                      /\ UNCHANGED models
                 ELSE /\ models' = (name :> modelOptions(model, info)) @@ models
                      /\ UNCHANGED panics
    /\ UNCHANGED <<endpoint, initted, genVars, buildVars, lockVars>>

\* DefineCommonModels, when none of its names is in the registry: its first
\* DefineModel call panics before Init, otherwise the seven go through
DefineCommonModels ==
    /\ Len(panics) < MaxPanics
    /\ DOMAIN models \cap Range(CommonModelNames) = {}
    /\ IF ~initted
       THEN /\ panics' = Append(panics, "azureaifoundry: Init not called")
            /\ UNCHANGED models
       ELSE /\ models' = defineAll(models,
                                   [k \in 1..Len(CommonModelNames) |->
                                       ModelDefinition(CommonModelNames[k], "chat",
                                                       CommonSupportsVision[k])])
            /\ UNCHANGED panics
    /\ UNCHANGED <<endpoint, initted, genVars, buildVars, lockVars>>

NextPlugin == PluginInit \/ DefineModel \/ DefineCommonModels

SpecPlugin == InitPlugin /\ [][NextPlugin]_vars

(***************************************************************************)
(* Claims about the plugin value.                                          *)
(***************************************************************************)
\* the deployment name belongs to the GPT-5, GPT-4 or GPT-3.5-turbo family
InToolFamilies(name) ==
    LET lower == ToLower(name)
    IN  \/ Contains(lower, <<"g", "p", "t", "-", "5">>)
        \/ Contains(lower, <<"g", "p", "t", "-", "4">>)
        \/ Contains(lower, <<"g", "p", "t", "-", "3", "5", "-", "t", "u", "r", "b", "o">>)
        \/ Contains(lower, <<"g", "p", "t", "-", "3", ".", "5", "-", "t", "u", "r", "b", "o">>)

\* C20 as stated: every model defined without explicit ModelInfo whose name
\* belongs to the GPT-5, GPT-4 or GPT-3.5-turbo family declares tool support
C20_InferredToolSupport ==
    \A name \in DOMAIN models :
        (models[name].inferred /\ InToolFamilies(name)) => models[name].supports.tools

(***************************************************************************)
(* Claims about the accumulators of a streaming call.                      *)
(***************************************************************************)
\* the fragments of index i that carried a name, and those that carried an id
NamedAt(fs, i) == SelectSeq(fs, LAMBDA f : f.index = i /\ f.name # "")

IdentifiedAt(fs, i) == SelectSeq(fs, LAMBDA f : f.index = i /\ f.id # "")

\* C21 as stated: the name stored for an index is the first non-empty name
\* received for it; a later fragment with another name does not change it
C21_FirstNameKept ==
    (path = "stream" /\ ~SinkFailed) =>
        LET fs == Fragments
        IN  \A i \in DOMAIN toolCallsMap :
               LET named == NamedAt(fs, i)
               IN  named # <<>> => toolCallsMap[i].name = named[1].name

\* C30 as stated: the id stored for an index is the id of the first fragment
\* of that index that carried one, also when the fragment that created the
\* entry carried none
C30_FirstIdKept ==
    (path = "stream" /\ ~SinkFailed) =>
        LET fs == Fragments
        IN  \A i \in DOMAIN toolCallsMap :
               LET identified == IdentifiedAt(fs, i)
               IN  identified # <<>> => toolCallsMap[i].id = identified[1].id

\* the indices whose accumulator has a name
NamedIndices == {i \in DOMAIN toolCallsMap : toolCallsMap[i].name # ""}

\* the ToolRequest part an accumulator stands for
PartOf(acc) ==
    NewToolRequestPart(acc.name,
                       IF acc.arguments = <<>> THEN NilArgs ELSE Unmarshal(acc.arguments).args)

\* C22: a streaming response holds exactly one ToolRequest part per index
\* that has a name at the end of the stream and none for an index without a
\* name, whatever its buffer holds; a name with an empty buffer gives a
\* ToolRequest with empty input; and the call succeeds when every named
\* buffer is empty or decodes and neither the sink nor the transport failed
C22_OnePartPerNamedIndex ==
    (path = "stream" /\ pc = "done") =>
        LET named == NamedIndices
        IN  /\ result.response # <<>> =>
                  LET parts == ToolRequestParts(result.response[1])
                  IN  /\ Len(parts) = Cardinality(named)
                      /\ \E order \in Perms(named) :
                            parts = [k \in 1..Len(order) |-> PartOf(toolCallsMap[order[k]])]
            /\ (/\ ~SinkFailed
                /\ transportErr = ""
                /\ \A i \in named : toolCallsMap[i].arguments = <<>>
                                    \/ Parses(toolCallsMap[i].arguments))
                  => result.response # <<>>

\* the call succeeds with a named index whose buffer is empty and an index
\* without a name whose buffer does not decode
C22_Witness ==
    /\ path = "stream" /\ Succeeded
    /\ \E i, j \in DOMAIN toolCallsMap :
          /\ toolCallsMap[i].name # "" /\ toolCallsMap[i].arguments = <<>>
          /\ toolCallsMap[j].name = "" /\ ~Parses(toolCallsMap[j].arguments)
    /\ Len(ToolRequestParts(result.response[1])) = 1
    /\ ToolRequestParts(result.response[1])[1].input = NilArgs

\* C25 as stated: a tool call with a name (and, on the synchronous path, an
\* id) and an empty argument string gives a ToolRequest with empty input on
\* both paths
C25_EmptyArgumentsOnBothPaths ==
    Succeeded =>
        LET parts == Range(ToolRequestParts(result.response[1]))
        IN  /\ path = "stream" =>
                  \A i \in DOMAIN toolCallsMap :
                     (toolCallsMap[i].name # "" /\ toolCallsMap[i].arguments = <<>>) =>
                         NewToolRequestPart(toolCallsMap[i].name, NilArgs) \in parts
            /\ (path = "sync" /\ wire[1].choices # <<>>) =>
                  \A tc \in Range(WireToolCalls) :
                     (tc.id # "" /\ tc.name # "" /\ tc.arguments = <<>>) =>
                         NewToolRequestPart(tc.name, NilArgs) \in parts

\* the positions of an event in the log of the call
PositionsOf(e) == {k \in 1..Len(events) : events[k] = e}

\* C27: a sink failure ends the call with the callback error and stream.Err()
\* is never looked at; a terminal error of the transport makes the call fail
\* with the stream error and the tool calls are never converted; the
\* conversion error is returned only when the sink did not fail and the
\* transport reported no error, and the conversion comes after the check
C27_FailureOrder ==
    path = "stream" =>
        /\ SinkFailed =>
              /\ result = Failed("streaming callback error", Last(sinkLog).err)
              /\ PositionsOf("errcheck") = {} /\ PositionsOf("convert") = {}
              /\ transportErr = ""
        /\ transportErr # "" =>
              /\ result = Failed("stream error", transportErr)
              /\ PositionsOf("convert") = {}
              /\ Cardinality(PositionsOf("errcheck")) = 1
        /\ result.error.msg = "failed to convert tool calls" =>
              /\ ~SinkFailed /\ transportErr = ""
              /\ \E i \in DOMAIN toolCallsMap : Undecodable(i)
        /\ \A c \in PositionsOf("convert") : \E e \in PositionsOf("errcheck") : e < c

\* the transport reports an error at the end of a stream that delivered
\* text to the sink and accumulated a buffer that does not decode
C27_Witness ==
    /\ path = "stream" /\ pc = "done"
    /\ transportErr # ""
    /\ sinkLog # <<>>
    /\ \E i \in DOMAIN toolCallsMap : Undecodable(i)
    /\ result.error.msg = "stream error"

\* the multiset of the elements of a sequence
BagOf(seq) == [x \in Range(seq) |-> Cardinality({k \in 1..Len(seq) : seq[k] = x})]

OtherId(id) == IF id = "" THEN "" ELSE "zz"

OtherIdsInResponse(resp) ==
    [resp EXCEPT !.choices =
        [c \in 1..Len(resp.choices) |->
            [resp.choices[c] EXCEPT !.message.toolCalls =
                [k \in 1..Len(@) |-> [@[k] EXCEPT !.id = OtherId(@)]]]]]

OtherIdsInMap(m) == [i \in DOMAIN m |-> [m[i] EXCEPT !.id = OtherId(@)]]

\* the conversation that follows a response: its message, then one tool
\* result per ToolRequest part
FollowUp(r) ==
    LET reqs == ToolRequestParts(r)
    IN  <<Message("model", r.content),
          Message("tool", [k \in 1..Len(reqs) |->
                              NewToolResponsePart(reqs[k].name, reqs[k].input)])>>

\* C26: in the request translated from the message of a response, the id of
\* a tool call is "call_" + name: two ToolRequest parts of one name get the
\* same id, and so do their tool results; the response, and with it the
\* request translated from it, is the same whatever ids the provider supplied
C26_IdFromNameAlone ==
    Succeeded =>
        LET r == result.response[1]
            reqs == ToolRequestParts(r)
            out == convertMessagesToOpenAI(FollowUp(r))
        IN  /\ path = "sync" => syncResult("", OtherIdsInResponse(wire[1])) = result
            /\ path = "stream" =>
                  \E order \in Perms(DOMAIN toolCallsMap) :
                      streamResult(transportErr, fullText, OtherIdsInMap(toolCallsMap), order,
                                   readLog) = result
            /\ reqs # <<>> =>
                  /\ Len(out) = 1 + Len(reqs)
                  /\ out[1].toolCalls # <<>>
                  /\ Len(out[1].toolCalls[1]) = Len(reqs)
                  /\ \A k \in 1..Len(reqs) :
                        /\ out[1].toolCalls[1][k].id = <<"call_", reqs[k].name>>
                        /\ out[1 + k].toolCallID = out[1].toolCalls[1][k].id
                        /\ \A l \in 1..Len(reqs) :
                              reqs[k].name = reqs[l].name =>
                                  /\ out[1].toolCalls[1][k].id = out[1].toolCalls[1][l].id
                                  /\ out[1 + k].toolCallID = out[1 + l].toolCallID

\* the provider sent two calls of one tool with ids and different arguments
C26_Witness ==
    /\ path = "sync" /\ Succeeded
    /\ LET reqs == ToolRequestParts(result.response[1])
       IN  /\ Len(reqs) = 2
           /\ reqs[1].name = reqs[2].name
           /\ reqs[1].input # reqs[2].input
    /\ \A tc \in Range(WireToolCalls) : tc.id # ""
    /\ \A tc \in Range(OtherIdsInResponse(wire[1]).choices[1].message.toolCalls) : tc.id = "zz"

(***************************************************************************)
(* More claims about request building.                                     *)
(***************************************************************************)
\* a ToolRequest or ToolResponse part whose value cannot be serialized
Unserializable(p) ==
    \/ p.kind = "toolRequest" /\ ~Serializable(p.input)
    \/ p.kind = "toolResponse" /\ ~Serializable(p.output)

\* the message without its unserializable parts
Without(msg) ==
    [msg EXCEPT !.content = SelectSeq(msg.content, LAMBDA p : ~Unserializable(p))]

WithoutAll(msgs) == [k \in 1..Len(msgs) |-> Without(msgs[k])]

\* a model message that has parts, all of them unserializable
OnlyUnserializable(msg) ==
    msg.role = "model" /\ Len(msg.content) > 0 /\ Without(msg).content = <<>>

\* C23 as stated: the wire request is the one the conversation would give
\* with the unserializable ToolRequest and ToolResponse parts absent
C23_AsIfAbsent ==
    Built => params[1].messages = convertMessagesToOpenAI(WithoutAll(request[1].messages))

RECURSIVE AsIfAbsentExceptEmptied(_)
AsIfAbsentExceptEmptied(msgs) ==
    IF msgs = <<>> THEN <<>>
    ELSE (IF OnlyUnserializable(Head(msgs))
          THEN <<[role |-> "assistant", content |-> <<>>, toolCalls |-> <<>>]>>
          ELSE convertMessagesToOpenAI(<<Without(Head(msgs))>>))
         \o AsIfAbsentExceptEmptied(Tail(msgs))

\* C23 amended: translation never fails, and the wire request is the one
\* the conversation would give with the unserializable parts absent, except
\* that a model message whose parts are all unserializable still gives one
\* assistant message, with empty text and no tool calls
C23_AsIfAbsentExceptEmptied ==
    Built => params[1].messages = AsIfAbsentExceptEmptied(request[1].messages)

\* a model message with an unserializable and a serializable ToolRequest,
\* followed by a user message
C23_Witness ==
    /\ Built
    /\ LET msgs == request[1].messages
           out == params[1].messages
       IN  /\ Len(msgs) = 2
           /\ msgs[1].role = "model" /\ Len(msgs[1].content) = 2
           /\ Unserializable(msgs[1].content[1])
           /\ KeptRequest(msgs[1].content[2])
           /\ Len(out) = 2
           /\ Len(out[1].toolCalls[1]) = 1
           /\ out[2].role = "user"

\* C24: the wire messages of a message come after those of the messages
\* before it and are the ones the message gives alone; those of a tool
\* message are contiguous and in the order of its ToolResponse parts
C24_OrderPreserved ==
    Built => LET msgs == request[1].messages
                 out == params[1].messages
             IN  /\ WireAligned(msgs, out)
                 /\ \A k \in 1..Len(msgs) :
                       LET from == WireOffset(msgs, k)
                           mine == SubSeq(out, from + 1, from + WireCount(msgs[k]))
                           kept == SelectSeq(msgs[k].content, KeptResponse)
                       IN  /\ mine = convertMessagesToOpenAI(<<msgs[k]>>)
                           /\ msgs[k].role = "tool" =>
                                 \A i \in 1..Len(kept) :
                                    /\ mine[i].role = "tool"
                                    /\ mine[i].toolCallID = <<"call_", kept[i].name>>
                                    /\ mine[i].content = Marshal(kept[i].output).json

\* a tool message with two results of different tools, then a user message
C24_Witness ==
    /\ Built
    /\ LET msgs == request[1].messages
           out == params[1].messages
       IN  /\ Len(msgs) = 2 /\ Len(out) = 3
           /\ msgs[1].role = "tool" /\ msgs[2].role = "user"
           /\ out[1].toolCallID # out[2].toolCallID
           /\ out[1].content # out[2].content
           /\ out[3].role = "user"

(***************************************************************************)
(* Concurrent Init, DefineModel and DefineEmbedder calls on one plugin     *)
(* value.  A call takes a.mu, runs its body, and the deferred Unlock runs  *)
(* when it returns or panics.  A panic is recovered by the caller.         *)
(***************************************************************************)
Operations == {"Init", "DefineModel", "DefineEmbedder"}

NewCall(op) == [op |-> op, at |-> "start", outcome |-> ""]

\* `if !a.initted { panic(...) }`
requireInit(flag) == IF ~flag THEN "azureaifoundry: Init not called" ELSE "ok"

\* variant: the mutex stays locked when the call panics
deferredUnlock_notOnPanic(holder, outcome) == IF outcome # "ok" THEN holder ELSE 0

\* `defer a.mu.Unlock()`: runs on return and on panic
deferredUnlock(holder, outcome) == 0

\* the name a DefineEmbedder call passes
EmbedderName(c) == <<"text-embedding-", c>>

\* a goroutine calls one of the three methods
Call ==
    /\ Len(callLog) < MaxCalls
    /\ \E op \in Operations : callLog' = Append(callLog, NewCall(op))
    /\ UNCHANGED <<mu, embedders, pluginVars, genVars, buildVars>>

\* a.mu.Lock() returns
Lock ==
    /\ mu = 0
    /\ \E c \in DOMAIN callLog :
          /\ callLog[c].at = "start"
          /\ mu' = c
          /\ callLog' = [callLog EXCEPT ![c].at = "locked"]
    /\ UNCHANGED <<embedders, pluginVars, genVars, buildVars>>

\* Init between Lock and the deferred Unlock
InitBody ==
    /\ \E c \in DOMAIN callLog, credFails \in BOOLEAN :
          /\ callLog[c].op = "Init" /\ callLog[c].at = "locked"
          /\ LET r == initBody(initted, endpoint, credFails)
             IN  /\ initted' = r.initted
                 /\ panics' = IF r.outcome = "ok" THEN panics ELSE Append(panics, r.outcome)
                 /\ callLog' = [callLog EXCEPT ![c].at = "unwinding", ![c].outcome = r.outcome]
    /\ UNCHANGED <<mu, embedders, endpoint, models, genVars, buildVars>>

\* DefineModel between Lock and the deferred Unlock
DefineModelBody ==
    /\ \E c \in DOMAIN callLog :
          /\ callLog[c].op = "DefineModel" /\ callLog[c].at = "locked"
          /\ LET outcome == requireInit(initted)
                 model == ModelDefinition(CommonModelNames[c], "chat", FALSE)
             IN  /\ models' = IF outcome = "ok"
                               THEN (model.name :> modelOptions(model, <<>>)) @@ models
                               ELSE models
                 /\ panics' = IF outcome = "ok" THEN panics ELSE Append(panics, outcome)
                 /\ callLog' = [callLog EXCEPT ![c].at = "unwinding", ![c].outcome = outcome]
    /\ UNCHANGED <<mu, embedders, endpoint, initted, genVars, buildVars>>

\* DefineEmbedder between Lock and the deferred Unlock
DefineEmbedderBody ==
    /\ \E c \in DOMAIN callLog :
          /\ callLog[c].op = "DefineEmbedder" /\ callLog[c].at = "locked"
          /\ LET outcome == requireInit(initted)
             IN  /\ embedders' = IF outcome = "ok" THEN embedders \cup {EmbedderName(c)}
                                 ELSE embedders
                 /\ panics' = IF outcome = "ok" THEN panics ELSE Append(panics, outcome)
                 /\ callLog' = [callLog EXCEPT ![c].at = "unwinding", ![c].outcome = outcome]
    /\ UNCHANGED <<mu, endpoint, initted, models, genVars, buildVars>>

\* the deferred Unlock, then the call returns or the panic goes on
Unlock ==
    /\ \E c \in DOMAIN callLog :
          /\ callLog[c].at = "unwinding"
          /\ mu' = deferredUnlock(mu, callLog[c].outcome)
          /\ callLog' = [callLog EXCEPT ![c].at = IF callLog[c].outcome = "ok"
                                                  THEN "returned" ELSE "panicked"]
    /\ UNCHANGED <<embedders, pluginVars, genVars, buildVars>>

NextConcurrent ==
    Call \/ Lock \/ InitBody \/ DefineModelBody \/ DefineEmbedderBody \/ Unlock

SpecConcurrent == InitPlugin /\ [][NextConcurrent]_vars

(***************************************************************************)
(* Claims about concurrent calls on the plugin value.                      *)
(***************************************************************************)
Holding(c) == callLog[c].at \in {"locked", "unwinding"}

CompletedInits == {c \in DOMAIN callLog : callLog[c].op = "Init" /\ callLog[c].outcome = "ok"}

Definitions == {c \in DOMAIN callLog : callLog[c].op \in {"DefineModel", "DefineEmbedder"}}

\* the mutex is held by exactly the call that is between Lock and the end of
\* its deferred Unlock, so a call that returned or panicked has released it;
\* at most one Init completes; the flag is set exactly when one did; with an
\* empty Endpoint no Init completes and each one that ran panicked for it; a
\* second Init panics only when the flag is set; DefineModel and
\* DefineEmbedder complete only with the flag set, and only they register
LockAndFlag ==
    /\ mu \in 0..Len(callLog)
    /\ \A c \in DOMAIN callLog : Holding(c) <=> mu = c
    /\ Cardinality(CompletedInits) <= 1
    /\ initted <=> CompletedInits # {}
    /\ endpoint = "" =>
          /\ ~initted
          /\ \A c \in DOMAIN callLog :
                (callLog[c].op = "Init" /\ callLog[c].outcome # "") =>
                    callLog[c].outcome = "azureaifoundry: Endpoint is required"
    /\ \A c \in DOMAIN callLog :
          callLog[c].outcome = "azureaifoundry: Init already called" => initted
    /\ \A c \in Definitions :
          /\ callLog[c].outcome = "ok" => initted
          /\ callLog[c].outcome = "azureaifoundry: Init not called" =>
                (callLog[c].at = "unwinding" => ~initted)
    /\ DOMAIN models = {CommonModelNames[c] :
                           c \in {d \in Definitions : callLog[d].op = "DefineModel"
                                                      /\ callLog[d].outcome = "ok"}}
    /\ embedders = {EmbedderName(c) :
                       c \in {d \in Definitions : callLog[d].op = "DefineEmbedder"
                                                  /\ callLog[d].outcome = "ok"}}

\* C29: under every interleaving of Init, DefineModel and DefineEmbedder
\* calls the flag goes from false to true at most once and never back, at
\* most one Init completes, DefineModel and DefineEmbedder complete only
\* with the flag set, and the lock is released on every exit, panics included
C29_InitOnceUnderLock == []LockAndFlag /\ [][initted => initted']_vars

\* a DefineModel call panicked before Init, one Init completed, another Init
\* panicked, and the lock is free
C29_Witness ==
    /\ mu = 0
    /\ \A c \in DOMAIN callLog : callLog[c].at \in {"returned", "panicked"}
    /\ \E a, b, c \in DOMAIN callLog :
          /\ callLog[a].op = "DefineModel" /\ callLog[a].at = "panicked"
          /\ callLog[b].op = "Init" /\ callLog[b].at = "returned"
          /\ callLog[c].op = "Init" /\ callLog[c].at = "panicked"
                /\ callLog[c].outcome = "azureaifoundry: Init already called"

====
